---- MODULE Spec2Model ----
(***************************************************************************)
(* A model of the retrieval pipeline of the RAG-based FAQ backend:         *)
(*   - EmbeddingService (app/services/embedding_service.py): the FAISS     *)
(*     index, the parallel chunk_ids list and the two persisted artifacts; *)
(*   - TextChunker (app/utils/text_chunker.py);                            *)
(*   - DocumentService / QAService request flows.                          *)
(* Several specifications share the module; each leaves the variables of   *)
(* the other parts untouched.                                              *)
(***************************************************************************)
EXTENDS Integers, Sequences, FiniteSets, TLC

VARIABLES
    live,        \* an EmbeddingService instance exists (its __init__ returned)
    index,       \* self.index: the vectors of the FAISS IndexFlatIP, in order
    chunk_ids,   \* self.chunk_ids
    diskIndex,   \* the file  <FAISS_INDEX_PATH>.index
    diskIds,     \* the file  <FAISS_INDEX_PATH>_chunk_ids.pkl
    removed,     \* history: ids removed from the instance and not added since
    last,        \* history: the last completed call
    chunker,     \* a TextChunker, the text given to split_text and its result
    req,         \* the requests being handled, each with its own services
    documents,   \* the rows of the documents table
    dbChunks,    \* the rows of the document_chunks table
    files,       \* the files in UPLOAD_DIR
    nextFile,    \* names the next uploaded file (uuid4: never used before)
    nextId,      \* the next id the documents table assigns
    nReq,        \* the number of requests received so far
    resp,        \* the response sent in the last step, if it sent one
    okDocs,      \* history: the documents whose upload returned successfully
    everIds,     \* history: the embedding_id of every chunk row ever stored
    qa           \* a call of a QAService helper: its arguments and its result

embVars == <<live, index, chunk_ids, diskIndex, diskIds, removed, last>>

\* the one-instance view of the service, unused by the request flows
instVars == <<live, index, chunk_ids, removed, last>>

\* the tables and the upload directory
storeVars == <<documents, dbChunks, files>>

\* the counters
ctrVars == <<nextFile, nextId, nReq>>

svcVars == <<req, storeVars, ctrVars, resp, okDocs, everIds, qa>>

vars == <<embVars, chunker, svcVars>>

-----------------------------------------------------------------------------
(* Bounds of the model *)

\* longest index / id list the model builds
MaxIndex == 2

\* longest text given to split_text
MaxText == 5

\* uploads the request flows accept in one behaviour
MaxDocs == 2

\* requests the request flows receive in one behaviour
MaxRequests == 3

\* the longest result list of a search the helpers are given
MaxResults == 3

\* the most pieces in an answer of a provider, the most parts in a context
MaxPieces == 2
MaxParts == 2

-----------------------------------------------------------------------------
(* Values *)

\* sentence_transformers and faiss were imported (lines 8-13); the mock
\* branches of the service are modelled below and taken when this is FALSE
ML_AVAILABLE == TRUE

\* the texts that get embedded: chunk contents 1 and 2, and the questions
Texts == {1, 2, 3}

\* the values of top_k a search is asked for
TopKs == {-1, 0, 1, 2, 3}

DigitStr == <<"0", "1", "2", "3", "4", "5", "6", "7", "8", "9">>

\* str(n) of a one-digit number, a sequence of characters
Str(n) == <<DigitStr[n + 1]>>

\* f"{document.id}_{i}"
EmbeddingId(document_id, i) == Str(document_id) \o <<"_">> \o Str(i)

\* the ids the callers of the service pass in
IdPool == {EmbeddingId(1, 0), EmbeddingId(2, 0)}

\* the text of the chunk each id names
Content == [id \in IdPool |-> IF id = EmbeddingId(1, 0) THEN 1 ELSE 2]

\* model.encode followed by faiss.normalize_L2: a unit vector per text, scaled
\* by 10 (all of these have Euclidean norm 10)
Encode(t) ==
    CASE t = 1 -> <<10, 0>>
      [] t = 2 -> <<8, 6>>
      [] t = 3 -> <<0, 10>>
      [] t = 4 -> <<-6, 8>>
      [] OTHER -> <<-10, 0>>

\* the inner product IndexFlatIP ranks by (cosine similarity scaled by 100)
InnerProduct(u, v) == u[1] * v[1] + u[2] * v[2]

\* an entry of the index: the stored vector; "tag" is history, the id the
\* vector was added together with (FAISS does not store it)
Entry(t, id) == [vec |-> Encode(t), tag |-> id]

SeqsUpTo(S, n) == UNION {[1..k -> S] : k \in 0..n}

Min(a, b) == IF a <= b THEN a ELSE b

\* a persisted artifact: missing, or holding data
Absent == [st |-> "absent", data |-> <<>>]
File(d) == [st |-> "ok", data |-> d]

-----------------------------------------------------------------------------
(* EmbeddingService, as functions of the instance (index, chunk_ids) and of  *)
(* the two files                                                             *)

\* what save_index can do: write both files ("ok"), raise before the index
\* file is written (os.makedirs or faiss.write_index: "index_fail") or raise
\* after it, before the id list is written (open or pickle.dump: "ids_fail").
\* The exception is caught and printed (lines 59-60): the caller never learns
\* of it.  A file left half-written is not modelled apart: reading it raises,
\* as reading the missing id list does.
SaveOutcomes == {"ok", "index_fail", "ids_fail"}

\* line 55: faiss.write_index(self.index, ...)
WriteIndexFile(idx, dIndex, io) ==
    IF io = "index_fail" THEN dIndex ELSE File(idx)

MutWriteIdsFileStale(cids, dIds, io) == dIds

\* lines 56-57: pickle.dump(self.chunk_ids, f), reached when line 55 returned
WriteIdsFile(cids, dIds, io) ==
    IF io \in {"index_fail", "ids_fail"} THEN dIds ELSE File(cids)

\* save_index: the two files after the call
SaveIndex(idx, cids, dIndex, dIds, io) ==
    IF ~ML_AVAILABLE
    THEN [index |-> dIndex, ids |-> dIds]
    ELSE [index |-> WriteIndexFile(idx, dIndex, io),
          ids |-> WriteIdsFile(cids, dIds, io)]

\* load_or_create_index: the instance it leaves, or err when it raises
LoadOrCreateIndex(dIndex, dIds) ==
    IF ~ML_AVAILABLE
    THEN [err |-> FALSE, index |-> <<>>, chunk_ids |-> <<>>]
    ELSE IF dIndex.st # "absent"
    THEN IF dIds.st # "ok"
         THEN [err |-> TRUE, index |-> <<>>, chunk_ids |-> <<>>]
         ELSE [err |-> FALSE, index |-> dIndex.data, chunk_ids |-> dIds.data]
    ELSE [err |-> FALSE, index |-> <<>>, chunk_ids |-> <<>>]

\* the vectors index.add(embeddings) appends for texts and their ids
NewEntries(texts, ids) == [j \in 1..Len(texts) |-> Entry(texts[j], ids[j])]

\* list(range(start_idx, start_idx + len(texts)))
Positions(start_idx, n) == [j \in 1..n |-> start_idx + j - 1]

\* what one add_embeddings call can do: generate_embeddings / index.add raise
\* (caught at lines 100-102), or the call reaches save_index
AddOutcomes == {"embed_fail"} \cup SaveOutcomes

\* add_embeddings without the early return of lines 73-74: the empty call
\* goes on to save_index
MutAddEmptySaves(idx, cids, dIndex, dIds, texts, ids, io) ==
    IF ~ML_AVAILABLE
    THEN [index |-> idx, chunk_ids |-> cids \o ids, dIndex |-> dIndex,
          dIds |-> dIds, ret |-> Positions(Len(cids), Len(texts))]
    ELSE IF io = "embed_fail"
    THEN [index |-> idx, chunk_ids |-> cids, dIndex |-> dIndex, dIds |-> dIds,
          ret |-> <<>>]
    ELSE LET idx2 == idx \o NewEntries(texts, ids)
             cids2 == cids \o ids
             d == SaveIndex(idx2, cids2, dIndex, dIds, io)
         IN  [index |-> idx2, chunk_ids |-> cids2, dIndex |-> d.index,
              dIds |-> d.ids, ret |-> Positions(Len(cids), Len(texts))]

\* add_embeddings(texts, chunk_ids): the instance, the files and the result
AddEmbeddings(idx, cids, dIndex, dIds, texts, ids, io) ==
    IF texts = <<>>
    THEN [index |-> idx, chunk_ids |-> cids, dIndex |-> dIndex, dIds |-> dIds,
          ret |-> <<>>]
    ELSE IF ~ML_AVAILABLE
    THEN [index |-> idx, chunk_ids |-> cids \o ids, dIndex |-> dIndex,
          dIds |-> dIds, ret |-> Positions(Len(cids), Len(texts))]
    ELSE IF io = "embed_fail"
    THEN [index |-> idx, chunk_ids |-> cids, dIndex |-> dIndex, dIds |-> dIds,
          ret |-> <<>>]
    ELSE LET idx2 == idx \o NewEntries(texts, ids)
             cids2 == cids \o ids
             d == SaveIndex(idx2, cids2, dIndex, dIds, io)
         IN  [index |-> idx2, chunk_ids |-> cids2, dIndex |-> d.index,
              dIds |-> d.ids, ret |-> Positions(Len(cids), Len(texts))]

\* the positions i of self.chunk_ids that remove_embeddings keeps
Kept(cids, ids) == {i \in 1..Len(cids) : \A j \in 1..Len(ids) : ids[j] # cids[i]}

RECURSIVE SubSeq2(_, _, _)
\* the elements of s at the positions in P, in order, from position i on
SubSeq2(s, P, i) ==
    IF i > Len(s) THEN <<>>
    ELSE IF i \in P THEN <<s[i]>> \o SubSeq2(s, P, i + 1)
    ELSE SubSeq2(s, P, i + 1)

MutRemoveKeepsIds(idx, cids, dIndex, dIds, ids, io) ==
    LET P == Kept(cids, ids)
        d == SaveIndex(SubSeq2(idx, P, 1), cids, dIndex, dIds, io)
    IN  [err |-> FALSE, index |-> SubSeq2(idx, P, 1), chunk_ids |-> cids,
         dIndex |-> d.index, dIds |-> d.ids]

\* remove_embeddings(chunk_ids): err when index.reconstruct(i) raises on a
\* position the index does not hold
RemoveEmbeddings(idx, cids, dIndex, dIds, ids, io) ==
    IF ids = <<>>
    THEN [err |-> FALSE, index |-> idx, chunk_ids |-> cids,
          dIndex |-> dIndex, dIds |-> dIds]
    ELSE IF ~ML_AVAILABLE
    THEN [err |-> FALSE, index |-> idx,
          chunk_ids |-> SubSeq2(cids, Kept(cids, ids), 1),
          dIndex |-> dIndex, dIds |-> dIds]
    ELSE LET P == Kept(cids, ids)
         IN  IF \E i \in P : i > Len(idx)
             THEN [err |-> TRUE, index |-> idx, chunk_ids |-> cids,
                   dIndex |-> dIndex, dIds |-> dIds]
             ELSE LET idx2 == SubSeq2(idx, P, 1)
                      cids2 == SubSeq2(cids, P, 1)
                      d == SaveIndex(idx2, cids2, dIndex, dIds, io)
                  IN  [err |-> FALSE, index |-> idx2, chunk_ids |-> cids2,
                       dIndex |-> d.index, dIds |-> d.ids]

RECURSIVE Ranked(_, _, _, _)
\* IndexFlatIP.search: the k best positions of idx among P for the query
\* vector, by descending inner product (equal scores: the earlier position),
\* padded with label -1 (here position 0) when the index holds fewer than k
Ranked(idx, P, qv, k) ==
    IF k <= 0 THEN <<>>
    ELSE IF P = {} THEN <<[pos |-> 0, score |-> -1000000]>> \o Ranked(idx, P, qv, k - 1)
    ELSE LET p == CHOOSE x \in P : \A y \in P :
                      \/ InnerProduct(qv, idx[x].vec) > InnerProduct(qv, idx[y].vec)
                      \/ /\ InnerProduct(qv, idx[x].vec) = InnerProduct(qv, idx[y].vec)
                         /\ x <= y
         IN  <<[pos |-> p, score |-> InnerProduct(qv, idx[p].vec)]>>
                 \o Ranked(idx, P \ {p}, qv, k - 1)

RECURSIVE Resolve(_, _, _)
\* lines 127-130: label idx (position pos - 1) is kept when idx < len(chunk_ids);
\* Python reads chunk_ids[-1], the last id, for the padding label -1
Resolve(hits, cids, i) ==
    IF i > Len(hits) THEN <<>>
    ELSE LET h == hits[i]
         IN  IF h.pos = 0
             THEN <<[id |-> cids[Len(cids)], score |-> h.score]>> \o Resolve(hits, cids, i + 1)
             ELSE IF h.pos <= Len(cids)
             THEN <<[id |-> cids[h.pos], score |-> h.score]>> \o Resolve(hits, cids, i + 1)
             ELSE Resolve(hits, cids, i + 1)

\* search_similar(query, top_k) in the FAISS branch: err when index.search
\* refuses k (faiss asserts k > 0)
SearchSimilar(idx, cids, q, top_k) ==
    IF cids = <<>> THEN [err |-> FALSE, res |-> <<>>]
    ELSE LET k == Min(top_k, Len(cids))
         IN  IF k <= 0 THEN [err |-> TRUE, res |-> <<>>]
             ELSE [err |-> FALSE,
                   res |-> Resolve(Ranked(idx, 1..Len(idx), Encode(q), k), cids, 1)]

-----------------------------------------------------------------------------
(* TextChunker (app/utils/text_chunker.py); a str is a sequence of          *)
(* one-character strings                                                     *)

\* the characters of the texts the model splits
Alphabet == {"a", "b", " ", "."}

\* what \s matches and str.strip() removes
Whitespace == {" ", "\n", "\t", "\r"}

\* the sentence terminators of the pattern [.!?]+
Punct == {".", "!", "?"}

RECURSIVE LStrip(_)
LStrip(s) == IF s # <<>> /\ Head(s) \in Whitespace THEN LStrip(Tail(s)) ELSE s

RECURSIVE RStrip(_)
RStrip(s) ==
    IF s # <<>> /\ s[Len(s)] \in Whitespace THEN RStrip(SubSeq(s, 1, Len(s) - 1)) ELSE s

\* str.strip()
StripStr(s) == RStrip(LStrip(s))

RECURSIVE CollapseWs(_, _)
\* re.sub(r'\s+', ' ', text), from position i on
CollapseWs(s, i) ==
    IF i > Len(s) THEN <<>>
    ELSE IF s[i] \in Whitespace
    THEN IF i > 1 /\ s[i - 1] \in Whitespace
         THEN CollapseWs(s, i + 1)
         ELSE <<" ">> \o CollapseWs(s, i + 1)
    ELSE <<s[i]>> \o CollapseWs(s, i + 1)

\* re.sub(r'[\r\n\t]', ' ', text)
ReplaceControl(s) == [i \in 1..Len(s) |-> IF s[i] \in {"\r", "\n", "\t"} THEN " " ELSE s[i]]

\* _clean_text
CleanText(text) == StripStr(ReplaceControl(CollapseWs(text, 1)))

RECURSIVE ReSplit(_, _, _)
\* re.split(r'[.!?]+', text): the pieces between the runs of terminators, from
\* position i on, cur being the piece read so far
ReSplit(s, i, cur) ==
    IF i > Len(s) THEN <<cur>>
    ELSE IF s[i] \in Punct
    THEN IF i > 1 /\ s[i - 1] \in Punct
         THEN ReSplit(s, i + 1, cur)
         ELSE <<cur>> \o ReSplit(s, i + 1, <<>>)
    ELSE ReSplit(s, i + 1, Append(cur, s[i]))

RECURSIVE CleanSentences(_, _)
\* lines 82-89: strip each piece, drop the empty ones, add the full stop
CleanSentences(pieces, i) ==
    IF i > Len(pieces) THEN <<>>
    ELSE LET sentence == StripStr(pieces[i])
         IN  IF sentence = <<>> THEN CleanSentences(pieces, i + 1)
             ELSE IF sentence[Len(sentence)] \in Punct
             THEN <<sentence>> \o CleanSentences(pieces, i + 1)
             ELSE <<sentence \o <<".">>>> \o CleanSentences(pieces, i + 1)

\* _split_into_sentences
SplitIntoSentences(text) == CleanSentences(ReSplit(text, 1, <<>>), 1)

\* the chunk record split_text appends for the buffer current_chunk
ChunkOf(current_chunk, start_pos) ==
    [text |-> StripStr(current_chunk), start |-> start_pos,
     end |-> start_pos + Len(StripStr(current_chunk))]

RECURSIVE JoinedLen(_, _)
\* len(" ".join([chunk["text"] for chunk in chunks])), from chunk i on
JoinedLen(chunks, i) ==
    IF i > Len(chunks) THEN 0
    ELSE Len(chunks[i].text) + (IF i < Len(chunks) THEN 1 ELSE 0) + JoinedLen(chunks, i + 1)

\* lines 38-54: the buffer and start_pos a new chunk starts with
StartNewChunk(chunks, sentence, chunk_overlap) ==
    IF chunk_overlap > 0 /\ chunks # <<>>
    THEN LET last_chunk == chunks[Len(chunks)].text
             overlap_text ==
                 IF Len(last_chunk) > chunk_overlap
                 THEN SubSeq(last_chunk, Len(last_chunk) - chunk_overlap + 1, Len(last_chunk))
                 ELSE last_chunk
             overlap_sentences == SplitIntoSentences(overlap_text)
         IN  IF overlap_sentences # <<>>
             THEN [chunks |-> chunks,
                   current_chunk |-> overlap_sentences[Len(overlap_sentences)] \o <<" ">>,
                   start_pos |-> chunks[Len(chunks)].end
                                   - Len(overlap_sentences[Len(overlap_sentences)])]
             ELSE [chunks |-> chunks, current_chunk |-> sentence \o <<" ">>,
                   start_pos |-> chunks[Len(chunks)].end]
    ELSE [chunks |-> chunks, current_chunk |-> sentence \o <<" ">>,
          start_pos |-> JoinedLen(chunks, 1) + 1]

\* lines 26-54: one pass of the loop body, for one sentence
ChunkStep(st, sentence, chunk_size, chunk_overlap) ==
    IF Len(st.current_chunk) + Len(sentence) <= chunk_size
    THEN [st EXCEPT !.current_chunk = @ \o sentence \o <<" ">>]
    ELSE StartNewChunk(
             IF StripStr(st.current_chunk) # <<>>
             THEN Append(st.chunks, ChunkOf(st.current_chunk, st.start_pos))
             ELSE st.chunks,
             sentence, chunk_overlap)

RECURSIVE ChunkLoop(_, _, _, _, _)
\* lines 25-54: the loop over the sentences, from sentence i on
ChunkLoop(st, sentences, i, chunk_size, chunk_overlap) ==
    IF i > Len(sentences) THEN st
    ELSE ChunkLoop(ChunkStep(st, sentences[i], chunk_size, chunk_overlap),
                   sentences, i + 1, chunk_size, chunk_overlap)

\* split_text without the tests of lines 12 and 57: the buffer is appended
\* even when it is blank
MutSplitTextAlwaysAppends(text, chunk_size, chunk_overlap) ==
    LET st == ChunkLoop([chunks |-> <<>>, current_chunk |-> <<>>, start_pos |-> 0],
                        SplitIntoSentences(CleanText(text)), 1,
                        chunk_size, chunk_overlap)
    IN  Append(st.chunks, ChunkOf(st.current_chunk, st.start_pos))

\* split_text
SplitText(text, chunk_size, chunk_overlap) ==
    IF StripStr(text) = <<>> THEN <<>>
    ELSE LET st == ChunkLoop([chunks |-> <<>>, current_chunk |-> <<>>, start_pos |-> 0],
                             SplitIntoSentences(CleanText(text)), 1,
                             chunk_size, chunk_overlap)
         IN  IF StripStr(st.current_chunk) # <<>>
             THEN Append(st.chunks, ChunkOf(st.current_chunk, st.start_pos))
             ELSE st.chunks

-----------------------------------------------------------------------------
(* QAService (app/services/qa_service.py) as functions.  A similarity score  *)
(* is the inner product of two vectors of norm 10: 100 times the cosine.     *)

\* user_top_k: Optional[int], None is <<>> and the integer k is <<k>>
UserTopKs == {<<>>, <<-1>>, <<0>>, <<1>>, <<5>>}

\* a question: the text that is embedded, and the keywords of the lists at
\* lines 63-69 that occur in question.lower()
Questions == {[text |-> 1, words |-> {"what"}], [text |-> 3, words |-> {"how", "steps"}],
              [text |-> 3, words |-> {}]}

\* _determine_top_k(question, user_top_k)
DetermineTopK(question, user_top_k) ==
    IF user_top_k # <<>> /\ user_top_k[1] # 0 THEN user_top_k[1]
    ELSE IF question.words \cap {"what", "who", "when", "where"} # {} THEN 3
    ELSE IF question.words \cap {"how", "why", "explain", "describe"} # {} THEN 7
    ELSE IF question.words \cap {"steps", "procedure", "process", "guide"} # {} THEN 8
    ELSE 5

\* _filter_by_similarity(chunks, threshold): threshold 0.1 is 10 on the
\* scale of the scores
\* the filter with score >= threshold in place of score > threshold
MutFilterAtLeast(chunks, threshold) ==
    SelectSeq(chunks, LAMBDA c : c.score >= threshold)

FilterBySimilarity(chunks, threshold) ==
    SelectSeq(chunks, LAMBDA c : c.score > threshold)

\* lines 37-41: the chunks answer_question looks up
FilteredChunks(similar_chunks) ==
    LET filtered_chunks == FilterBySimilarity(similar_chunks, 10)
    IN  IF filtered_chunks = <<>>
        THEN SubSeq(similar_chunks, 1, Min(2, Len(similar_chunks)))
        ELSE filtered_chunks

RECURSIVE IntOf(_)
\* int(s) of a non-empty string of digits
IntOf(s) ==
    LET d == CHOOSE n \in 0..9 : DigitStr[n + 1] = s[Len(s)]
    IN  IF Len(s) = 1 THEN d ELSE 10 * IntOf(SubSeq(s, 1, Len(s) - 1)) + d

\* lines 85-90: chunk_id.split("_") unpacked into two strings, each given to
\* int(); ok is FALSE when that raises ValueError
ParseChunkId(chunk_id) ==
    LET us == {i \in 1..Len(chunk_id) : chunk_id[i] = "_"}
        u == CHOOSE i \in us : TRUE
        IsInt(t) == t # <<>> /\ \A i \in 1..Len(t) : \E n \in 0..9 : DigitStr[n + 1] = t[i]
    IN  IF Cardinality(us) # 1
        THEN [ok |-> FALSE, document_id |-> 0, chunk_index |-> 0]
        ELSE IF ~IsInt(SubSeq(chunk_id, 1, u - 1))
                  \/ ~IsInt(SubSeq(chunk_id, u + 1, Len(chunk_id)))
        THEN [ok |-> FALSE, document_id |-> 0, chunk_index |-> 0]
        ELSE [ok |-> TRUE, document_id |-> IntOf(SubSeq(chunk_id, 1, u - 1)),
              chunk_index |-> IntOf(SubSeq(chunk_id, u + 1, Len(chunk_id)))]

RECURSIVE MutGetSourceChunksAborts(_, _, _, _)
\* _get_source_chunks giving up at the first id that does not parse
MutGetSourceChunksAborts(similar_chunks, docs, chunks, i) ==
    IF i > Len(similar_chunks) THEN <<>>
    ELSE LET p == ParseChunkId(similar_chunks[i].id)
             rows == {c \in chunks : /\ c.document_id = p.document_id
                                     /\ c.chunk_index = p.chunk_index
                                     /\ \E d \in docs : d.id = c.document_id}
             chunk == CHOOSE c \in rows : TRUE
         IN  IF ~p.ok THEN <<>>
             ELSE IF rows = {}
             THEN MutGetSourceChunksAborts(similar_chunks, docs, chunks, i + 1)
             ELSE <<[content |-> chunk.content,
                     document_name |-> chunk.document_id,
                     chunk_index |-> chunk.chunk_index,
                     similarity_score |-> similar_chunks[i].score]>>
                    \o MutGetSourceChunksAborts(similar_chunks, docs, chunks, i + 1)

RECURSIVE GetSourceChunks(_, _, _, _)
\* _get_source_chunks(similar_chunks) from element i on, against the tables:
\* the chunk row joined with its document row; document_name is given as the
\* id of the document
GetSourceChunks(similar_chunks, docs, chunks, i) ==
    IF i > Len(similar_chunks) THEN <<>>
    ELSE LET p == ParseChunkId(similar_chunks[i].id)
             rows == {c \in chunks : /\ c.document_id = p.document_id
                                     /\ c.chunk_index = p.chunk_index
                                     /\ \E d \in docs : d.id = c.document_id}
             chunk == CHOOSE c \in rows : TRUE
         IN  IF ~p.ok \/ rows = {}
             THEN GetSourceChunks(similar_chunks, docs, chunks, i + 1)
             ELSE <<[content |-> chunk.content,
                     document_name |-> chunk.document_id,
                     chunk_index |-> chunk.chunk_index,
                     similarity_score |-> similar_chunks[i].score]>>
                    \o GetSourceChunks(similar_chunks, docs, chunks, i + 1)

\* _prepare_enhanced_context: one part "Source i (from name): content" per
\* source chunk, in order
PrepareEnhancedContext(source_chunks) ==
    [i \in 1..Len(source_chunks) |->
        [label |-> i, document_name |-> source_chunks[i].document_name,
         content |-> source_chunks[i].content]]

\* the sentence of lines 31 and 117
NoInformation == "I couldn't find any relevant information to answer your question."

\* _generate_answer: the fixed sentence of line 117 when there is no source,
\* else the (never empty) answer of LLMService.generate_answer
GenerateAnswer(source_chunks) ==
    IF source_chunks = <<>> THEN NoInformation
    ELSE "generated"

\* _generate_answer lines 119-123: LLMService.generate_answer is awaited
LLMCalled(source_chunks) == source_chunks # <<>>

-----------------------------------------------------------------------------
(* DocumentService (app/services/document_service.py) as functions          *)

\* the chunk texts split_text yields for the documents that are uploaded
DocTexts == {<<>>, <<1>>, <<1, 2>>}

\* lines 148-162: the ids and the chunk rows of a document
DocChunkIds(document_id, texts) ==
    [j \in 1..Len(texts) |-> EmbeddingId(document_id, j - 1)]

\* the chunk rows numbered from 1 (enumerate(chunks, 1))
MutDocChunkRowsOneBased(document_id, texts) ==
    {[document_id |-> document_id, chunk_index |-> j, content |-> texts[j],
      embedding_id |-> EmbeddingId(document_id, j)] : j \in 1..Len(texts)}

DocChunkRows(document_id, texts) ==
    {[document_id |-> document_id, chunk_index |-> j - 1, content |-> texts[j],
      embedding_id |-> EmbeddingId(document_id, j - 1)] : j \in 1..Len(texts)}

\* delete_document lines 255-260: the embedding ids of the chunk rows of a
\* document, in the order of chunk_index
StoredChunkIds(chunks, document_id) ==
    LET rows == {c \in chunks : c.document_id = document_id}
    IN  [j \in 1..Cardinality(rows) |->
            (CHOOSE c \in rows : c.chunk_index = j - 1).embedding_id]

\* db.delete(document) and commit: the row goes, and with it the chunk rows
\* that belong to it
DeleteDocumentRow(docs, chunks, document_id) ==
    [documents |-> {d \in docs : d.id # document_id},
     chunks |-> {c \in chunks : c.document_id # document_id}]

-----------------------------------------------------------------------------
(* The requests *)

\* the requests handled at the same time
Req == {1, 2}

\* a request that has not started
IdleReq ==
    [kind |-> "idle", pc |-> "idle", doc |-> 0, file |-> 0, texts |-> <<>>,
     index |-> <<>>, chunk_ids |-> <<>>, th |-> "none", hits |-> <<>>,
     fresh |-> 0, question |-> [text |-> 0, words |-> {}], llm |-> FALSE]

\* the response to the request rec: the status and, for a question, the
\* sources and the answer
Response(rec, status, sources, answer) ==
    [kind |-> rec.kind, status |-> status, doc |-> rec.doc, file |-> rec.file,
     sources |-> sources, answer |-> answer, fresh |-> rec.fresh,
     question |-> rec.question, llm |-> rec.llm]

\* no call of a QAService helper
NoQA == [fn |-> "none", question |-> [text |-> 1, words |-> {}], user_top_k |-> <<>>,
         similar_chunks |-> <<>>, done |-> FALSE, top_k |-> 0, filtered |-> <<>>,
         sources |-> <<>>, context |-> <<>>]

SvcIdle ==
    /\ qa = NoQA
    /\ req = [r \in Req |-> IdleReq]
    /\ documents = {}
    /\ dbChunks = {}
    /\ files = {}
    /\ nextFile = 1
    /\ nextId = 1
    /\ nReq = 0
    /\ resp = Response(IdleReq, 0, <<>>, "")
    /\ okDocs = {}
    /\ everIds = {}

-----------------------------------------------------------------------------
(* Spec: one EmbeddingService instance at a time over the persisted files;  *)
(* every call runs to completion before the next starts                      *)

\* the record of a call: the operation, what its environment did (io),
\* whether it raised (err) and the length of its argument (n)
Call(op, io, err, n) == [op |-> op, io |-> io, err |-> err, n |-> n]

\* no TextChunker in use
NoChunker == [text |-> <<>>, chunk_size |-> 0, chunk_overlap |-> 0,
              done |-> FALSE, chunks |-> <<>>]

Init ==
    /\ chunker = NoChunker
    /\ live = FALSE
    /\ index = <<>>
    /\ chunk_ids = <<>>
    /\ diskIndex = Absent
    /\ diskIds = Absent
    /\ removed = {}
    /\ last = Call("none", "ok", FALSE, 0)
    /\ SvcIdle

\* EmbeddingService(): __init__ resets the fields and loads; when the load
\* raises, no instance comes to exist
Construct ==
    LET r == LoadOrCreateIndex(diskIndex, diskIds)
    IN  /\ live' = ~r.err
        /\ index' = r.index
        /\ chunk_ids' = r.chunk_ids
        /\ removed' = {}
        /\ last' = Call("construct", "ok", r.err, 0)
        /\ UNCHANGED <<diskIndex, diskIds, chunker, svcVars>>

Range(s) == {s[i] : i \in 1..Len(s)}

\* the chunk_ids arguments of add_embeddings
AddArgs == SeqsUpTo(IdPool, Min(2, MaxIndex))

\* the texts argument that goes with a chunk_ids argument: the content of
\* each chunk (of the same length, as every caller passes it)
ContentsOf(ids) == [j \in 1..Len(ids) |-> Content[ids[j]]]

\* one call add_embeddings(texts, ids) on the instance
AddCall(texts, ids, io) ==
    /\ live
    /\ Len(index) + Len(texts) <= MaxIndex
    /\ Len(chunk_ids) + Len(texts) <= MaxIndex
    /\ texts = <<>> => io = "ok"
    /\ LET r == AddEmbeddings(index, chunk_ids, diskIndex, diskIds, texts, ids, io)
       IN  /\ index' = r.index
           /\ chunk_ids' = r.chunk_ids
           /\ diskIndex' = r.dIndex
           /\ diskIds' = r.dIds
           /\ removed' = IF r.chunk_ids = chunk_ids THEN removed
                         ELSE removed \ Range(ids)
    /\ last' = Call("add", io, FALSE, Len(texts))
    /\ UNCHANGED <<live, chunker, svcVars>>

Add == \E ids \in AddArgs, io \in AddOutcomes : AddCall(ContentsOf(ids), ids, io)

\* the chunk_ids arguments remove_embeddings is called with
RemoveArgs ==
    {<<>>, <<EmbeddingId(1, 0)>>, <<EmbeddingId(2, 0)>>,
     <<EmbeddingId(1, 0), EmbeddingId(2, 0)>>}

\* one call remove_embeddings(ids) on the instance
RemoveCall(ids, io) ==
    /\ live
    /\ ids = <<>> => io = "ok"
    /\ LET r == RemoveEmbeddings(index, chunk_ids, diskIndex, diskIds, ids, io)
       IN  /\ index' = r.index
           /\ chunk_ids' = r.chunk_ids
           /\ diskIndex' = r.dIndex
           /\ diskIds' = r.dIds
           /\ removed' = IF r.err THEN removed ELSE removed \cup Range(ids)
           /\ last' = Call("remove", io, r.err, Len(ids))
    /\ UNCHANGED <<live, chunker, svcVars>>

Remove == \E ids \in RemoveArgs, io \in SaveOutcomes : RemoveCall(ids, io)

\* one call save_index() on the instance
SaveCall(io) ==
    /\ live
    /\ LET d == SaveIndex(index, chunk_ids, diskIndex, diskIds, io)
       IN  /\ diskIndex' = d.index
           /\ diskIds' = d.ids
    /\ last' = Call("save", io, FALSE, 0)
    /\ UNCHANGED <<live, index, chunk_ids, removed, chunker, svcVars>>

Save == \E io \in SaveOutcomes : SaveCall(io)

Next == Construct \/ Add \/ Remove \/ Save

Spec == Init /\ [][Next]_vars

-----------------------------------------------------------------------------
(* LoadSpec: load_or_create_index as a function of the persisted files.  The *)
(* files outlive the process, so the service can be started on any of them.  *)

\* the contents an index file can hold
IndexFiles == {[j \in 1..Len(ids) |-> Entry(Content[ids[j]], ids[j])] :
                 ids \in SeqsUpTo(IdPool, MaxIndex)}

LoadInit ==
    /\ chunker = NoChunker
    /\ live = FALSE
    /\ index = <<>>
    /\ chunk_ids = <<>>
    /\ diskIndex \in {Absent} \cup {File(x) : x \in IndexFiles}
    /\ diskIds \in {Absent} \cup {File(x) : x \in SeqsUpTo(IdPool, MaxIndex)}
    /\ removed = {}
    /\ last = Call("none", "ok", FALSE, 0)
    /\ SvcIdle

LoadSpec == LoadInit /\ [][Construct]_vars

-----------------------------------------------------------------------------
(* ChunkSpec: split_text as a function of the text and of the configuration *)

\* the values of chunk_size and chunk_overlap the model configures
ChunkSizes == {2, 4, 6}
ChunkOverlaps == {0, 2, 3}

ChunkInit ==
    /\ chunker \in [text : SeqsUpTo(Alphabet, MaxText), chunk_size : ChunkSizes,
                    chunk_overlap : ChunkOverlaps, done : {FALSE}, chunks : {<<>>}]
    /\ live = FALSE
    /\ index = <<>>
    /\ chunk_ids = <<>>
    /\ diskIndex = Absent
    /\ diskIds = Absent
    /\ removed = {}
    /\ last = Call("none", "ok", FALSE, 0)
    /\ SvcIdle

\* self.text_chunker.split_text(text)
Split ==
    /\ ~chunker.done
    /\ chunker' = [chunker EXCEPT
                      !.done = TRUE,
                      !.chunks = SplitText(chunker.text, chunker.chunk_size,
                                           chunker.chunk_overlap)]
    /\ UNCHANGED <<embVars, svcVars>>

ChunkSpec == ChunkInit /\ [][Split]_vars

-----------------------------------------------------------------------------
(* QASpec: the helpers of QAService as functions of their arguments          *)

\* keywords of the lists at lines 63-69 that a question may contain
Keywords == {"what", "where", "how", "explain", "steps", "guide"}

\* the similarity scores of the results (10 is the threshold 0.1)
Scores == {-100, 0, 10, 11, 100}

\* the lists search_similar returns: pairs (chunk_id, score) by
\* non-increasing score
SearchResults ==
    {s \in SeqsUpTo([id : IdPool, score : Scores], MaxResults) :
        \A i \in 1..(Len(s) - 1) : s[i].score >= s[i + 1].score}

\* ids an index can hand to _get_source_chunks: ids of chunks, an id of no
\* chunk, and ids that do not split into two integers
SourceIds ==
    {EmbeddingId(1, 0), EmbeddingId(1, 1), EmbeddingId(2, 0), EmbeddingId(3, 0),
     <<"x">>, <<"1", "_", "0", "_", "0">>, <<"a", "_", "0">>}

\* the lists given to _get_source_chunks, by non-increasing score
ResolvedLists ==
    {s \in SeqsUpTo([id : SourceIds, score : {11, 100}], MaxResults) :
        \A i \in 1..(Len(s) - 1) : s[i].score >= s[i + 1].score}

\* the JSON body of POST /qa/ask: the caller sends the key top_k or leaves
\* it out; null is <<>>
Bodies ==
    [question : [text : {1}, words : SUBSET Keywords]]
    \cup [question : [text : {1}, words : SUBSET Keywords], top_k : UserTopKs]

\* QuestionRequest(**body): a field that is not sent takes its default,
\* top_k: Optional[int] = 5
QuestionRequest(body) ==
    [question |-> body.question,
     top_k |-> IF "top_k" \in DOMAIN body THEN body.top_k ELSE <<5>>]

\* the tables: empty, one document of one chunk, two documents
Tables0 == [documents |-> {}, chunks |-> {}]

Tables ==
    {Tables0,
     [documents |-> {[id |-> 1, file |-> 1]}, chunks |-> DocChunkRows(1, <<1>>)],
     [documents |-> {[id |-> 1, file |-> 1], [id |-> 2, file |-> 2]},
      chunks |-> DocChunkRows(1, <<1, 2>>) \cup DocChunkRows(2, <<1>>)]}

QAInit ==
    /\ qa \in [fn : {"_determine_top_k"}, question : [text : {1}, words : SUBSET Keywords],
               user_top_k : UserTopKs, similar_chunks : {<<>>}, done : {FALSE},
               top_k : {0}, filtered : {<<>>}, sources : {<<>>}, context : {<<>>}]
          \cup [fn : {"_filter_by_similarity"}, question : {NoQA.question},
                user_top_k : {<<>>}, similar_chunks : SearchResults \ {<<>>},
                done : {FALSE}, top_k : {0}, filtered : {<<>>}, sources : {<<>>},
                context : {<<>>}]
          \cup [fn : {"_get_source_chunks"}, question : {NoQA.question},
                user_top_k : {<<>>}, similar_chunks : ResolvedLists,
                done : {FALSE}, top_k : {0}, filtered : {<<>>}, sources : {<<>>},
                context : {<<>>}]
          \cup [fn : {"ask_question"}, body : Bodies, done : {FALSE},
                question_request : {[question |-> NoQA.question, top_k |-> <<>>]},
                top_k : {0}]
    /\ chunker = NoChunker
    /\ live = FALSE
    /\ index = <<>>
    /\ chunk_ids = <<>>
    /\ diskIndex = Absent
    /\ diskIds = Absent
    /\ removed = {}
    /\ last = Call("none", "ok", FALSE, 0)
    /\ req = [r \in Req |-> IdleReq]
    /\ \E t \in Tables :
          /\ (qa.fn # "_get_source_chunks") => t = Tables0
          /\ documents = t.documents
          /\ dbChunks = t.chunks
    /\ files = {}
    /\ nextFile = 1
    /\ nextId = 1
    /\ nReq = 0
    /\ resp = Response(IdleReq, 0, <<>>, "")
    /\ okDocs = {}
    /\ everIds = {}

qaRest == <<embVars, chunker, req, storeVars, ctrVars, resp, okDocs, everIds>>

\* answer_question line 21: self._determine_top_k(question, top_k)
DetermineTopKCall ==
    /\ qa.fn = "_determine_top_k"
    /\ ~qa.done
    /\ qa' = [qa EXCEPT !.done = TRUE,
                        !.top_k = DetermineTopK(qa.question, qa.user_top_k)]
    /\ UNCHANGED qaRest

\* answer_question lines 36-41, reached with a non-empty similar_chunks
FilterCall ==
    /\ qa.fn = "_filter_by_similarity"
    /\ ~qa.done
    /\ qa.similar_chunks # <<>>
    /\ qa' = [qa EXCEPT !.done = TRUE, !.filtered = FilteredChunks(qa.similar_chunks)]
    /\ UNCHANGED qaRest

\* answer_question lines 44 and 120: _get_source_chunks(filtered_chunks)
\* and the context made of its result
SourcesCall ==
    /\ qa.fn = "_get_source_chunks"
    /\ ~qa.done
    /\ LET source_chunks == GetSourceChunks(qa.similar_chunks, documents, dbChunks, 1)
       IN  qa' = [qa EXCEPT !.done = TRUE, !.sources = source_chunks,
                            !.context = PrepareEnhancedContext(source_chunks)]
    /\ UNCHANGED qaRest

\* ask_question of api/qa.py: the body is parsed into a QuestionRequest;
\* answer_question line 21 computes the top_k that line 24 passes to
\* search_similar
AskQuestionCall ==
    /\ qa.fn = "ask_question"
    /\ ~qa.done
    /\ LET question_request == QuestionRequest(qa.body)
       IN  qa' = [qa EXCEPT !.done = TRUE,
                            !.question_request = question_request,
                            !.top_k = DetermineTopK(question_request.question,
                                                    question_request.top_k)]
    /\ UNCHANGED qaRest

QANext == DetermineTopKCall \/ FilterCall \/ SourcesCall \/ AskQuestionCall

QASpec == QAInit /\ [][QANext]_vars

-----------------------------------------------------------------------------
(* LLMService (app/services/llm_service.py).  A str is a sequence of pieces, *)
(* each piece a run of characters that the code never looks inside other    *)
(* than by the tests modelled here (length, strip, lower, startswith, in).   *)

\* the fixed sentences of lines 115, 145 and 152, and of line 128
StubNoInformation == "I don't have enough information to answer this question."
Insufficient == "I don't have enough information to provide a meaningful answer."
Disclaimer == "\n\n[This answer is based on the available documents in the system.]"
BasedOn == "Based on the available information:"

\* the pieces an answer of a provider is made of
Pieces == {" ", "ok", "Answer:", "A full sentence.", "don't have enough information",
           "Don't Have Enough Information"}

\* len(piece)
PieceLen(p) ==
    CASE p = " " -> 1
      [] p = "ok" -> 2
      [] p = "Answer:" -> 7
      [] p = "):]" -> 3
      [] p = "c1" -> 2
      [] p = "a.txt" -> 5
      [] p = "\n[Source: " -> 10
      [] p = "A full sentence." -> 16
      [] p = "Source code" -> 11
      [] p = "don't have enough information" -> 29
      [] p = "Don't Have Enough Information" -> 29
      [] p = BasedOn -> 35
      [] p = StubNoInformation -> 56
      [] p = Insufficient -> 63
      [] OTHER -> 66

RECURSIVE StrLen(_)
\* len(s)
StrLen(s) == IF s = <<>> THEN 0 ELSE PieceLen(Head(s)) + StrLen(Tail(s))

\* "don't have enough information" in s.lower()
HasPhrase(s) ==
    \E i \in 1..Len(s) :
        s[i] \in {"don't have enough information", "Don't Have Enough Information",
                  StubNoInformation, Insufficient}

\* settings: LLM_PROVIDER and whether each key is set
Settings == [LLM_PROVIDER : {"openai", "cohere", "stubbed"},
             OPENAI_API_KEY : BOOLEAN, COHERE_API_KEY : BOOLEAN]

is_openai_available(settings) ==
    settings.LLM_PROVIDER = "openai" /\ settings.OPENAI_API_KEY

is_cohere_available(settings) ==
    settings.LLM_PROVIDER = "cohere" /\ settings.COHERE_API_KEY

is_llm_available(settings) ==
    is_openai_available(settings) \/ is_cohere_available(settings)

\* the answers a provider gives, and what a call of a provider ends with:
\* an exception, or a response holding an answer
Answers == SeqsUpTo(Pieces, MaxPieces)

ProviderOutcomes == [raised : {TRUE}, text : {<<>>}] \cup [raised : {FALSE}, text : Answers]

\* the contexts _prepare_enhanced_context makes: a part per source chunk
Contexts ==
    {PrepareEnhancedContext(sc) :
        sc \in SeqsUpTo([content : {"c1", "Source code", " "}, document_name : {"a.txt"},
                         chunk_index : {0}, similarity_score : {100}], MaxParts)}

\* _generate_stubbed_answer(question, context): the lines of the context
\* that are not blank and do not start with "Source", the first three of
\* them, and the citation of the first line holding "from" (the heading of
\* the first part)
GenerateStubbedAnswer(question, context) ==
    LET contents == [i \in 1..Len(context) |-> context[i].content]
        relevant_info == SelectSeq(contents,
                             LAMBDA c : c \notin Whitespace /\ c # "Source code")
    IN  IF context = <<>> \/ relevant_info = <<>>
        THEN [raised |-> FALSE, text |-> <<StubNoInformation>>]
        ELSE [raised |-> FALSE,
              text |-> <<BasedOn>> \o SubSeq(relevant_info, 1, Min(3, Len(relevant_info)))
                          \o <<"\n[Source: ", context[1].document_name, "):]">>]

\* _generate_openai_answer with the exception handler left out
MutOpenAIRaises(question, context, outcome) ==
    IF outcome.raised
    THEN [raised |-> TRUE, text |-> <<>>]
    ELSE [raised |-> FALSE, text |-> StripStr(outcome.text)]

\* _generate_openai_answer: the stripped content of the response, or the
\* stubbed answer when anything in the try block raises
GenerateOpenAIAnswer(question, context, outcome) ==
    IF outcome.raised
    THEN GenerateStubbedAnswer(question, context)
    ELSE [raised |-> FALSE, text |-> StripStr(outcome.text)]

\* _generate_cohere_answer: as above, a leading "Answer:" removed
GenerateCohereAnswer(question, context, outcome) ==
    IF outcome.raised
    THEN GenerateStubbedAnswer(question, context)
    ELSE LET answer == StripStr(outcome.text)
         IN  [raised |-> FALSE,
              text |-> IF answer # <<>> /\ Head(answer) = "Answer:"
                       THEN StripStr(Tail(answer)) ELSE answer]

\* the validation with the disclaimer appended when a provider is available
MutValidateSwapped(answer, settings) ==
    IF answer = <<>> \/ StrLen(StripStr(answer)) < 10 THEN <<Insufficient>>
    ELSE IF HasPhrase(answer) THEN answer
    ELSE IF is_llm_available(settings) THEN answer \o <<Disclaimer>>
    ELSE answer

\* _validate_answer(answer, question)
ValidateAnswer(answer, settings) ==
    IF answer = <<>> \/ StrLen(StripStr(answer)) < 10 THEN <<Insufficient>>
    ELSE IF HasPhrase(answer) THEN answer
    ELSE IF ~is_llm_available(settings) THEN answer \o <<Disclaimer>>
    ELSE answer

\* generate_answer(question, context): raised when an exception leaves it
LLMGenerateAnswer(settings, question, context, outcome) ==
    LET answer == IF is_openai_available(settings)
                  THEN GenerateOpenAIAnswer(question, context, outcome)
                  ELSE IF is_cohere_available(settings)
                  THEN GenerateCohereAnswer(question, context, outcome)
                  ELSE GenerateStubbedAnswer(question, context)
    IN  IF answer.raised THEN answer
        ELSE [raised |-> FALSE, text |-> ValidateAnswer(answer.text, settings)]

\* LLMSpec: generate_answer and _validate_answer as functions of the
\* settings, of the context, and of what the provider does
LLMInit ==
    /\ qa \in [fn : {"generate_answer"}, settings : Settings, context : Contexts,
               outcome : ProviderOutcomes, answer : {<<>>}, done : {FALSE},
               ret : {[raised |-> FALSE, text |-> <<>>]}]
          \cup [fn : {"_validate_answer"}, settings : Settings, context : {<<>>},
                outcome : {[raised |-> FALSE, text |-> <<>>]}, answer : Answers,
                done : {FALSE}, ret : {[raised |-> FALSE, text |-> <<>>]}]
    /\ chunker = NoChunker
    /\ live = FALSE
    /\ index = <<>>
    /\ chunk_ids = <<>>
    /\ diskIndex = Absent
    /\ diskIds = Absent
    /\ removed = {}
    /\ last = Call("none", "ok", FALSE, 0)
    /\ req = [r \in Req |-> IdleReq]
    /\ documents = {}
    /\ dbChunks = {}
    /\ files = {}
    /\ nextFile = 1
    /\ nextId = 1
    /\ nReq = 0
    /\ resp = Response(IdleReq, 0, <<>>, "")
    /\ okDocs = {}
    /\ everIds = {}

\* qa_service.py line 123: llm_service.generate_answer(question, context)
GenerateAnswerCall ==
    /\ qa.fn = "generate_answer"
    /\ ~qa.done
    /\ qa' = [qa EXCEPT !.done = TRUE,
                        !.ret = LLMGenerateAnswer(qa.settings, 1, qa.context, qa.outcome)]
    /\ UNCHANGED qaRest

\* llm_service.py line 23: self._validate_answer(answer, question)
ValidateAnswerCall ==
    /\ qa.fn = "_validate_answer"
    /\ ~qa.done
    /\ qa' = [qa EXCEPT !.done = TRUE,
                        !.ret = [raised |-> FALSE,
                                 text |-> ValidateAnswer(qa.answer, qa.settings)]]
    /\ UNCHANGED qaRest

LLMNext == GenerateAnswerCall \/ ValidateAnswerCall

LLMSpec == LLMInit /\ [][LLMNext]_vars

-----------------------------------------------------------------------------
(* SvcSpec: the requests of the API, handled concurrently.  Every request   *)
(* constructs its own DocumentService or QAService, hence its own            *)
(* EmbeddingService loaded from the two files; the files, the tables and     *)
(* UPLOAD_DIR are shared.  A step is the code between two awaits, or the     *)
(* code of a worker thread between two writes of a file.                     *)

\* a request can start in a slot that handles none and runs no worker thread;
\* the slots are alike and the first free one is taken
Startable(r) ==
    /\ req[r].pc = "idle"
    /\ \A o \in Req : o < r => req[o].pc # "idle"
    /\ nReq < MaxRequests

\* no response is sent in this step
NoResp == Response(IdleReq, 0, <<>>, "")

Silent == resp' = NoResp

\* a save_index of request r has written the index file and not yet the ids
Mutating(r) == req[r].th = "mid" \/ req[r].pc = "d_mid"

\* the request in slot r ends with a response; its services are garbage
Respond(r, rec, status, sources, answer) ==
    /\ resp' = Response(rec, status, sources, answer)
    /\ req' = [req EXCEPT ![r] = IdleReq]

\* POST /documents/upload up to the first await: DocumentService(db), the
\* validation of the file (a 400 raised inside the try of upload_document
\* is caught at line 92 and becomes a 500), the choice of the file name
UploadBegin(r, texts, valid) ==
    /\ Startable(r)
    /\ nextFile <= MaxDocs
    /\ LET s == LoadOrCreateIndex(diskIndex, diskIds)
           rec == [IdleReq EXCEPT !.kind = "upload", !.pc = "read",
                                  !.file = nextFile, !.texts = texts,
                                  !.index = s.index, !.chunk_ids = s.chunk_ids]
       IN  IF s.err \/ ~valid
           THEN /\ Respond(r, [IdleReq EXCEPT !.kind = "upload"], 500, <<>>, "")
                /\ UNCHANGED nextFile
           ELSE /\ req' = [req EXCEPT ![r] = rec]
                /\ nextFile' = nextFile + 1
                /\ Silent
    /\ UNCHANGED <<embVars, chunker, storeVars, nextId, okDocs, everIds, qa>>
    /\ nReq' = nReq + 1

\* lines 51-56: file.read() returned; the file is written and the extraction
\* starts
UploadRead(r) ==
    /\ req[r].pc = "read"
    /\ files' = files \cup {req[r].file}
    /\ req' = [req EXCEPT ![r].pc = "extract"]
    /\ Silent
    /\ UNCHANGED <<embVars, chunker, documents, dbChunks, ctrVars, okDocs, everIds, qa>>

\* lines 56-77: the extraction returned the text and the document row is
\* committed, or it raised (lines 92-99: the file is removed, 500)
UploadExtract(r, ok) ==
    /\ req[r].pc = "extract"
    /\ IF ok
       THEN /\ documents' = documents \cup {[id |-> nextId, file |-> req[r].file]}
            /\ nextId' = nextId + 1
            /\ req' = [req EXCEPT ![r].pc = "chunk", ![r].doc = nextId]
            /\ UNCHANGED files
            /\ Silent
       ELSE /\ files' = files \ {req[r].file}
            /\ Respond(r, req[r], 500, <<>>, "")
            /\ UNCHANGED <<documents, nextId>>
    /\ UNCHANGED <<embVars, chunker, dbChunks, nextFile, nReq, okDocs, everIds, qa>>

\* _process_document_chunks lines 142-169: split_text returned, the chunk
\* rows are committed and add_embeddings is handed to a worker thread; or
\* split_text or the commit raised (upload_document lines 92-99: the file is
\* removed, 500)
UploadChunks(r, ok) ==
    /\ req[r].pc = "chunk"
    /\ IF ok
       THEN /\ dbChunks' = dbChunks \cup DocChunkRows(req[r].doc, req[r].texts)
            /\ everIds' = everIds \cup {c.embedding_id :
                                        c \in DocChunkRows(req[r].doc, req[r].texts)}
            /\ req' = [req EXCEPT ![r].pc = "embed", ![r].th = "run"]
            /\ Silent
            /\ UNCHANGED files
       ELSE /\ files' = files \ {req[r].file}
            /\ Respond(r, req[r], 500, <<>>, "")
            /\ UNCHANGED <<dbChunks, everIds>>
    /\ UNCHANGED <<embVars, chunker, documents, ctrVars, okDocs, qa>>

\* the worker thread: add_embeddings up to the write of the index file
\* (lines 71-96 and 48-55), or to its end when a step raises or there is no
\* text.  It runs whether or not the request has timed out meanwhile
\* (pc "late": the slot holds only the thread).
AddThread(r, io) ==
    /\ req[r].th = "run"
    /\ req[r].texts = <<>> => io = "ok"
    /\ LET me == req[r]
           a == AddEmbeddings(me.index, me.chunk_ids, diskIndex, diskIds, me.texts,
                              DocChunkIds(me.doc, me.texts),
                              IF io = "ok" THEN "ids_fail" ELSE io)
           th == IF me.texts # <<>> /\ io = "ok" THEN "mid" ELSE "done"
       IN  /\ diskIndex' = a.dIndex
           /\ req' = [req EXCEPT ![r] =
                         IF th = "done" /\ me.pc = "late" THEN IdleReq
                         ELSE [me EXCEPT !.index = a.index,
                                         !.chunk_ids = a.chunk_ids, !.th = th]]
    /\ Silent
    /\ UNCHANGED <<instVars, diskIds, chunker, storeVars, ctrVars, okDocs, everIds, qa>>

\* the worker thread: save_index lines 56-57, and the return
SaveThread(r) ==
    /\ req[r].th = "mid"
    /\ diskIds' = WriteIdsFile(req[r].chunk_ids, diskIds, "ok")
    /\ req' = [req EXCEPT ![r] = IF req[r].pc = "late" THEN IdleReq
                                 ELSE [req[r] EXCEPT !.th = "done"]]
    /\ Silent
    /\ UNCHANGED <<instVars, diskIndex, chunker, storeVars, ctrVars, okDocs, everIds, qa>>

\* lines 76-82: the worker thread ended within the budget, whatever
\* add_embeddings did: 200
UploadReturn(r) ==
    /\ req[r].pc = "embed"
    /\ req[r].th = "done"
    /\ Respond(r, req[r], 200, <<>>, "")
    /\ okDocs' = okDocs \cup {req[r].doc}
    /\ UNCHANGED <<everIds, qa>>
    /\ UNCHANGED <<embVars, chunker, storeVars, ctrVars>>

\* lines 84-91: a wait_for ran out of time; the file is removed when it
\* exists and the request ends with 408.  A worker thread is not stopped.
UploadTimeout(r) ==
    /\ req[r].pc \in {"read", "extract", "chunk", "embed"}
    /\ req[r].pc = "embed" => req[r].th \in {"run", "mid"}
    /\ files' = files \ {req[r].file}
    /\ resp' = Response(req[r], 408, <<>>, "")
    /\ req' = [req EXCEPT ![r] = IF req[r].th = "none" THEN IdleReq
                                 ELSE [req[r] EXCEPT !.pc = "late"]]
    /\ UNCHANGED <<embVars, chunker, documents, dbChunks, ctrVars, okDocs, everIds, qa>>

\* DELETE /documents/{document_id} up to the first await: DocumentService(db)
DeleteBegin(r, document_id) ==
    /\ Startable(r)
    /\ LET s == LoadOrCreateIndex(diskIndex, diskIds)
           rec == [IdleReq EXCEPT !.kind = "delete", !.pc = "d_select",
                                  !.doc = document_id, !.index = s.index,
                                  !.chunk_ids = s.chunk_ids]
       IN  IF s.err
           THEN Respond(r, [IdleReq EXCEPT !.kind = "delete", !.doc = document_id],
                        500, <<>>, "")
           ELSE req' = [req EXCEPT ![r] = rec] /\ Silent
    /\ UNCHANGED <<embVars, chunker, storeVars, nextFile, nextId, okDocs, everIds, qa>>
    /\ nReq' = nReq + 1

\* delete_document lines 246-262: no row, 404; else remove_embeddings with
\* the ids of the chunk rows, up to the write of the index file
DeleteSelect(r, io) ==
    /\ req[r].pc = "d_select"
    /\ LET me == req[r]
           ids == StoredChunkIds(dbChunks, me.doc)
           m == RemoveEmbeddings(me.index, me.chunk_ids, diskIndex, diskIds, ids,
                                 IF io = "ok" THEN "ids_fail" ELSE io)
       IN  IF \A d \in documents : d.id # me.doc
           THEN /\ io = "ok"
                /\ Respond(r, me, 404, <<>>, "")
                /\ UNCHANGED diskIndex
           ELSE IF m.err
           THEN /\ io = "ok"
                /\ Respond(r, me, 500, <<>>, "")
                /\ UNCHANGED diskIndex
           ELSE /\ ids = <<>> => io = "ok"
                /\ req' = [req EXCEPT ![r] =
                              [me EXCEPT !.index = m.index, !.chunk_ids = m.chunk_ids,
                                         !.pc = IF ids # <<>> /\ io = "ok"
                                                THEN "d_mid" ELSE "d_commit"]]
                /\ diskIndex' = m.dIndex
                /\ Silent
    /\ UNCHANGED <<instVars, diskIds, chunker, storeVars, ctrVars,
                   okDocs, everIds, qa>>

\* save_index lines 56-57 inside remove_embeddings, then the await of line 265
DeleteSave(r) ==
    /\ req[r].pc = "d_mid"
    /\ diskIds' = WriteIdsFile(req[r].chunk_ids, diskIds, "ok")
    /\ req' = [req EXCEPT ![r] = [req[r] EXCEPT !.pc = "d_commit", !.index = <<>>,
                                               !.chunk_ids = <<>>]]
    /\ Silent
    /\ UNCHANGED <<instVars, diskIndex, chunker, storeVars, ctrVars, okDocs, everIds, qa>>

\* lines 269-277: the file and the document row are deleted; the commit
\* raises when another request deleted the row meanwhile
DeleteCommit(r) ==
    /\ req[r].pc = "d_commit"
    /\ LET rows == {d \in documents : d.id = req[r].doc}
           t == DeleteDocumentRow(documents, dbChunks, req[r].doc)
       IN  IF rows = {}
           THEN /\ Respond(r, req[r], 500, <<>>, "")
                /\ UNCHANGED storeVars
           ELSE /\ Respond(r, req[r], 200, <<>>, "")
                /\ files' = files \ {d.file : d \in rows}
                /\ documents' = t.documents
                /\ dbChunks' = t.chunks
    /\ UNCHANGED <<embVars, chunker, ctrVars, okDocs, everIds, qa>>

\* history: the document that alone makes up the corpus when request r
\* starts with no other request under way, its upload having returned
\* successfully with at least one chunk; 0 when there is none
FreshCorpus(r) ==
    LET ds == {d.id : d \in documents}
    IN  IF /\ Cardinality(ds) = 1
           /\ ds \subseteq okDocs
           /\ \E c \in dbChunks : c.document_id \in ds
           /\ \A o \in Req \ {r} : req[o].pc = "idle"
        THEN CHOOSE d \in ds : TRUE
        ELSE 0

\* answer_question without the return of lines 29-34: the answer generator
\* is asked even when the search found nothing
MutAskAlwaysGenerates(r, question, user_top_k) ==
    /\ Startable(r)
    /\ LET s == LoadOrCreateIndex(diskIndex, diskIds)
           similar_chunks == SearchSimilar(s.index, s.chunk_ids, question.text,
                                           DetermineTopK(question, user_top_k))
           rec == [IdleReq EXCEPT !.kind = "ask", !.pc = "a_sources",
                                  !.question = question,
                                  !.fresh = FreshCorpus(r)]
       IN  IF s.err
           THEN Respond(r, rec, 500, <<>>, "")
           ELSE IF similar_chunks.err
           THEN Respond(r, rec, 500, <<>>, "")
           ELSE IF similar_chunks.res = <<>>
           THEN Respond(r, [rec EXCEPT !.llm = TRUE], 200, <<>>, "generated")
           ELSE /\ req' = [req EXCEPT ![r] =
                              [rec EXCEPT !.hits = FilteredChunks(similar_chunks.res)]]
                /\ Silent
    /\ UNCHANGED <<embVars, chunker, storeVars, nextFile, nextId, okDocs, everIds, qa>>
    /\ nReq' = nReq + 1

\* POST /qa/ask up to the first await: QAService(db), answer_question lines
\* 21-41.  An exception ends the request with 500 (main.py lines 73-79).
AskBegin(r, question, user_top_k) ==
    /\ Startable(r)
    /\ LET s == LoadOrCreateIndex(diskIndex, diskIds)
           similar_chunks == SearchSimilar(s.index, s.chunk_ids, question.text,
                                           DetermineTopK(question, user_top_k))
           rec == [IdleReq EXCEPT !.kind = "ask", !.pc = "a_sources",
                                  !.question = question,
                                  !.fresh = FreshCorpus(r)]
       IN  IF s.err
           THEN Respond(r, rec, 500, <<>>, "")
           ELSE IF similar_chunks.err
           THEN Respond(r, rec, 500, <<>>, "")
           ELSE IF similar_chunks.res = <<>>
           THEN Respond(r, rec, 200, <<>>, NoInformation)
           ELSE /\ req' = [req EXCEPT ![r] =
                              [rec EXCEPT !.hits = FilteredChunks(similar_chunks.res)]]
                /\ Silent
    /\ UNCHANGED <<embVars, chunker, storeVars, nextFile, nextId, okDocs, everIds, qa>>
    /\ nReq' = nReq + 1

\* answer_question lines 44-53: the sources are read from the tables and the
\* answer is generated
AskSources(r) ==
    /\ req[r].pc = "a_sources"
    /\ LET source_chunks == GetSourceChunks(req[r].hits, documents, dbChunks, 1)
       IN  Respond(r, [req[r] EXCEPT !.llm = LLMCalled(source_chunks)], 200,
                   source_chunks, GenerateAnswer(source_chunks))
    /\ UNCHANGED <<embVars, chunker, storeVars, ctrVars, okDocs, everIds, qa>>

\* rebuild_index(db) of embedding_service.py lines 166-214 on an instance
\* (idx, cids): with no session (db is None) an empty index is saved
RebuildIndex(idx, cids, dIndex, dIds, db, io) ==
    IF ~ML_AVAILABLE
    THEN [index |-> idx, chunk_ids |-> cids, dIndex |-> dIndex, dIds |-> dIds]
    ELSE IF db = "None"
    THEN LET d == SaveIndex(<<>>, <<>>, dIndex, dIds, io)
         IN  [index |-> <<>>, chunk_ids |-> <<>>, dIndex |-> d.index, dIds |-> d.ids]
    ELSE [index |-> idx, chunk_ids |-> cids, dIndex |-> dIndex, dIds |-> dIds]

\* POST /documents/rebuild-faiss-index (api/documents.py lines 187-207):
\* EmbeddingService() and rebuild_index() without a session, in one piece
\* (the handler awaits nothing)
RebuildFaissIndex(r, io) ==
    /\ Startable(r)
    /\ LET s == LoadOrCreateIndex(diskIndex, diskIds)
           rec == [IdleReq EXCEPT !.kind = "rebuild"]
           b == RebuildIndex(s.index, s.chunk_ids, diskIndex, diskIds, "None", io)
       IN  IF s.err
           THEN /\ io = "ok"
                /\ Respond(r, rec, 500, <<>>, "")
                /\ UNCHANGED <<diskIndex, diskIds>>
           ELSE /\ Respond(r, rec, 200, <<>>, "")
                /\ diskIndex' = b.dIndex
                /\ diskIds' = b.dIds
    /\ nReq' = nReq + 1
    /\ UNCHANGED <<instVars, chunker, storeVars, nextFile, nextId, okDocs, everIds, qa>>

SvcNext ==
    \E r \in Req :
        \/ \E texts \in DocTexts, valid \in BOOLEAN : UploadBegin(r, texts, valid)
        \/ UploadRead(r)
        \/ \E ok \in BOOLEAN : UploadExtract(r, ok)
        \/ \E ok \in BOOLEAN : UploadChunks(r, ok)
        \/ \E io \in AddOutcomes : AddThread(r, io)
        \/ SaveThread(r)
        \/ UploadReturn(r)
        \/ UploadTimeout(r)
        \/ \E document_id \in 1..MaxDocs : DeleteBegin(r, document_id)
        \/ \E io \in SaveOutcomes : DeleteSelect(r, io)
        \/ DeleteSave(r)
        \/ DeleteCommit(r)
        \/ \E question \in Questions, user_top_k \in UserTopKs :
              AskBegin(r, question, user_top_k)
        \/ AskSources(r)
        \/ \E io \in SaveOutcomes : RebuildFaissIndex(r, io)

SvcSpec == Init /\ [][SvcNext]_vars

\* uploads and deletions alone, every step of which succeeds: the file is
\* valid, nothing raises, no write fails and no wait runs out of time
SteadyNext ==
    \E r \in Req :
        \/ \E texts \in DocTexts : UploadBegin(r, texts, TRUE)
        \/ UploadRead(r)
        \/ UploadExtract(r, TRUE)
        \/ UploadChunks(r, TRUE)
        \/ AddThread(r, "ok")
        \/ SaveThread(r)
        \/ UploadReturn(r)
        \/ \E document_id \in 1..MaxDocs : DeleteBegin(r, document_id)
        \/ DeleteSelect(r, "ok")
        \/ DeleteSave(r)
        \/ DeleteCommit(r)

SteadySpec == Init /\ [][SteadyNext]_vars

\* no other request is under way and no worker thread of an earlier one runs
Alone(r) == \A o \in Req \ {r} : req[o] = IdleReq

\* uploads and deletions alone, one after the other, with every outcome of
\* their steps
SerialNext ==
    \E r \in Req :
        \/ \E texts \in DocTexts, valid \in BOOLEAN :
              Alone(r) /\ UploadBegin(r, texts, valid)
        \/ Alone(r) /\ UploadRead(r)
        \/ \E ok \in BOOLEAN : Alone(r) /\ UploadExtract(r, ok)
        \/ \E ok \in BOOLEAN : Alone(r) /\ UploadChunks(r, ok)
        \/ \E io \in AddOutcomes : Alone(r) /\ AddThread(r, io)
        \/ Alone(r) /\ SaveThread(r)
        \/ Alone(r) /\ UploadReturn(r)
        \/ Alone(r) /\ UploadTimeout(r)
        \/ \E document_id \in 1..MaxDocs : Alone(r) /\ DeleteBegin(r, document_id)
        \/ \E io \in SaveOutcomes : Alone(r) /\ DeleteSelect(r, io)
        \/ Alone(r) /\ DeleteSave(r)
        \/ Alone(r) /\ DeleteCommit(r)

SerialSpec == Init /\ [][SerialNext]_vars

-----------------------------------------------------------------------------
(* Claims about EmbeddingService *)

\* the ids of a search result
ResultIds(r) == {r.res[i].id : i \in 1..Len(r.res)}

\* the entries of an instance: position i ties chunk_ids[i] to the vector i
Pairs(idx, cids) ==
    [i \in 1..Min(Len(idx), Len(cids)) |-> [id |-> cids[i], vec |-> idx[i].vec]]

\* C1: the parallel-array invariant: whenever an instance exists, the index
\* holds as many vectors as chunk_ids holds ids, and the vector at each
\* position is the one that was added together with the id at that position.
C1_ParallelArrays ==
    live =>
        /\ Len(index) = Len(chunk_ids)
        /\ \A i \in 1..Len(chunk_ids) : index[i].tag = chunk_ids[i]

\* C2: add_embeddings is all-or-nothing: a call in which a step failed (the
\* embedding, or a write of save_index) leaves the instance and both files
\* as they were.
C2_AddAllOrNothing ==
    [][(last'.op = "add" /\ last'.io # "ok")
         => UNCHANGED <<index, chunk_ids, diskIndex, diskIds>>]_vars

\* the two files hold ids, with their vectors, from position start on, and a
\* load sees them
Persisted(dIndex, dIds, start, ids) ==
    /\ dIndex.st = "ok"
    /\ dIds.st = "ok"
    /\ Len(dIndex.data) >= start + Len(ids)
    /\ Len(dIds.data) >= start + Len(ids)
    /\ \A j \in 1..Len(ids) :
          /\ dIds.data[start + j] = ids[j]
          /\ dIndex.data[start + j].vec = Encode(Content[ids[j]])
    /\ LET r == LoadOrCreateIndex(dIndex, dIds)
       IN  /\ ~r.err
           /\ \A j \in 1..Len(ids) : r.chunk_ids[start + j] = ids[j]

\* C3: add_embeddings persists before returning: after every call with a
\* non-empty input, both files hold the entries of that call and an instance
\* constructed next sees them.
C3_AddPersistsBeforeReturn ==
    [][\A ids \in AddArgs, io \in AddOutcomes :
          (ids # <<>> /\ AddCall(ContentsOf(ids), ids, io))
              => Persisted(diskIndex', diskIds', Len(chunk_ids), ids)]_vars

C5_LoadFailsOnLoneArtifact ==
    (last.op = "construct" /\ (diskIndex.st = "ok") # (diskIds.st = "ok"))
        => last.err

-----------------------------------------------------------------------------
(* Claims about TextChunker *)

\* s occurs in t as a run of consecutive characters
OccursIn(s, t) ==
    \E i \in 0..(Len(t) - Len(s)) : SubSeq(t, i + 1, i + Len(s)) = s

\* C9: split_text loses no sentence: every sentence of the normalized input
\* occurs verbatim in the text of at least one returned chunk.
C9_NoSentenceLost ==
    chunker.done =>
        LET sentences == SplitIntoSentences(CleanText(chunker.text))
        IN  \A i \in 1..Len(sentences) :
                \E j \in 1..Len(chunker.chunks) :
                    OccursIn(sentences[i], chunker.chunks[j].text)

-----------------------------------------------------------------------------
(* Claims about the requests *)

\* C6: mutual exclusion on the vector index: no two requests are at the same
\* time inside a save of add_embeddings or remove_embeddings (the index file
\* written, the id list not yet), and no question loads and searches the
\* index while another request is inside such a save.
C6_MutualExclusion ==
    /\ [](\A r1, r2 \in Req : r1 # r2 => ~(Mutating(r1) /\ Mutating(r2)))
    /\ [][\A r \in Req, question \in Questions, user_top_k \in UserTopKs :
            AskBegin(r, question, user_top_k)
                => \A o \in Req \ {r} : ~Mutating(o)]_vars

\* C8: end-to-end visibility: a question asked when the corpus is one document
\* whose upload returned successfully with at least one chunk, and answered
\* while the corpus is still that document, gets a 200 with a non-empty
\* answer and non-empty sources that hold the content of a chunk of the
\* document.
C8_EndToEndVisibility ==
    (resp.kind = "ask" /\ resp.fresh # 0 /\ {d.id : d \in documents} = {resp.fresh})
        => /\ resp.status = 200
           /\ resp.answer # ""
           /\ resp.sources # <<>>
           /\ \E i \in 1..Len(resp.sources) : \E c \in dbChunks :
                 /\ c.document_id = resp.fresh
                 /\ resp.sources[i].document_name = resp.fresh
                 /\ resp.sources[i].content = c.content

\* the document document_id has an embedding in one of the two files
Indexed(dIndex, dIds, document_id) ==
    \/ /\ dIds.st = "ok"
       /\ \E i \in 1..Len(dIds.data) :
             ParseChunkId(dIds.data[i]).document_id = document_id
    \/ /\ dIndex.st = "ok"
       /\ \E i \in 1..Len(dIndex.data) :
             ParseChunkId(dIndex.data[i].tag).document_id = document_id

\* something of an upload is left: its file, its document row, a chunk row
\* or an embedding of its document (document_id is 0 when no row was made)
Orphans(fs, docs, chunks, dIndex, dIds, document_id, file) ==
    \/ file \in fs
    \/ \E d \in docs : d.file = file
    \/ /\ document_id # 0
       /\ \/ \E c \in chunks : c.document_id = document_id
          \/ Indexed(dIndex, dIds, document_id)

\* C10: an upload whose stage runs out of time is answered with 408, and
\* nothing of it is left then, nor when its worker thread ends later: no
\* file, no document row, no chunk row, no embedding in the two files.
C10_TimeoutLeavesNoOrphan ==
    /\ [][\A r \in Req : UploadTimeout(r)
            => resp'.kind = "upload" /\ resp'.status = 408]_vars
    /\ []((resp.kind = "upload" /\ resp.status = 408)
            => ~Orphans(files, documents, dbChunks, diskIndex, diskIds,
                        resp.doc, resp.file))
    /\ [][\A r \in Req : (req[r].pc = "late" /\ req'[r].pc = "idle")
            => ~Orphans(files', documents', dbChunks', diskIndex', diskIds',
                        req[r].doc, req[r].file)]_vars

\* every chunk row of the document document_id has its embedding in both
\* files, at the same position
AllIndexed(chunks, dIndex, dIds, document_id) ==
    \A c \in chunks :
        c.document_id = document_id =>
            /\ dIndex.st = "ok"
            /\ dIds.st = "ok"
            /\ \E i \in 1..Min(Len(dIndex.data), Len(dIds.data)) :
                  /\ dIds.data[i] = c.embedding_id
                  /\ dIndex.data[i].vec = Encode(c.content)

\* C11: ingestion is aborted and rolled back on pipeline errors: an upload
\* that ends with an error leaves no file, document row, chunk row or
\* embedding of its document, and an upload that ends with 200 has the
\* embedding of every one of its chunk rows in the persisted index.
C11_IngestionRollback ==
    /\ (resp.kind = "upload" /\ resp.status = 500)
          => ~Orphans(files, documents, dbChunks, diskIndex, diskIds,
                      resp.doc, resp.file)
    /\ (resp.kind = "upload" /\ resp.status = 200)
          => AllIndexed(dbChunks, diskIndex, diskIds, resp.doc)

\* C12: a validation error is rejected with 400 and no state change: an
\* upload of a file of a type that is not allowed (or too large), received
\* by a service that could be constructed, is answered with 400, and no
\* file, no document or chunk row and neither index file changes.
C12_ValidationRejected ==
    [][\A r \in Req, texts \in DocTexts :
          (~LoadOrCreateIndex(diskIndex, diskIds).err /\ UploadBegin(r, texts, FALSE))
              => /\ resp'.kind = "upload"
                 /\ resp'.status = 400
                 /\ UNCHANGED <<storeVars, diskIndex, diskIds>>]_vars

\* C13: deletion removes every trace of the document from retrieval: when
\* delete_document(d) has returned True, no chunk row of d is stored and
\* no embedding id "d_i" is in the persisted index or ids file.
C13_DeleteRemovesAll ==
    (resp.kind = "delete" /\ resp.status = 200)
        => /\ \A c \in dbChunks : c.document_id # resp.doc
           /\ ~Indexed(diskIndex, diskIds, resp.doc)

\* C14: answer_question is total: whatever the question, the supplied top_k
\* (zero, negative, larger than the index) and the index and tables, a
\* QAService that could be constructed answers with some answer text and
\* never fails the request.
C14_AnswerTotal ==
    [][\A r \in Req :
          /\ \A question \in Questions, user_top_k \in UserTopKs :
                (~LoadOrCreateIndex(diskIndex, diskIds).err
                    /\ AskBegin(r, question, user_top_k))
                    => (resp' = NoResp \/ (resp'.status = 200 /\ resp'.answer # ""))
          /\ AskSources(r) => (resp'.status = 200 /\ resp'.answer # "")]_vars

\* C15: the shape of a search result: for every query and top_k, a result
\* that search_similar returns has at most top_k entries and at most as
\* many entries as the index holds vectors, its scores never increase from
\* one entry to the next, and on an empty index the result is the empty
\* list, without an error.
C15_SearchShape ==
    live =>
        \A q \in Texts, top_k \in TopKs :
            LET s == SearchSimilar(index, chunk_ids, q, top_k)
            IN  /\ ~s.err =>
                     /\ Len(s.res) <= top_k \/ s.res = <<>>
                     /\ Len(s.res) <= Len(index)
                     /\ \A i \in 1..(Len(s.res) - 1) :
                           s.res[i].score >= s.res[i + 1].score
                /\ (index = <<>> /\ chunk_ids = <<>>) => (~s.err /\ s.res = <<>>)

\* C16: the empty calls change nothing: add_embeddings([], []) returns []
\* and remove_embeddings([]) returns, and each leaves the index and
\* chunk_ids of the instance and the two persisted files as they were.
C16_EmptyCallsNoOp ==
    [][(last'.n = 0 /\ last'.op \in {"add", "remove"}) =>
          /\ AddCall(<<>>, <<>>, "ok") =>
                /\ UNCHANGED <<index, chunk_ids, diskIndex, diskIds>>
                /\ AddEmbeddings(index, chunk_ids, diskIndex, diskIds,
                                 <<>>, <<>>, "ok").ret = <<>>
          /\ RemoveCall(<<>>, "ok") =>
                /\ UNCHANGED <<index, chunk_ids, diskIndex, diskIds>>
                /\ ~last'.err]_vars

\* an empty add_embeddings call has just returned on an instance that holds
\* an id its ids file does not (a save_index would have changed the file)
C16_Witness ==
    /\ live
    /\ last.op = "add"
    /\ last.n = 0
    /\ chunk_ids # <<>>
    /\ diskIds.data # chunk_ids

\* C17: chunk identity and ordering: the chunk rows of a document that
\* produced N chunks have the chunk_index values 0..N-1, each once; every
\* embedding_id is "{document_id}_{chunk_index}" and parses back to that
\* pair; and no two chunk rows ever stored, of whatever documents, present
\* or deleted, share an embedding_id.
C17_ChunkIdentity ==
    /\ [](\A c \in dbChunks :
            /\ c.embedding_id = EmbeddingId(c.document_id, c.chunk_index)
            /\ ParseChunkId(c.embedding_id) =
                  [ok |-> TRUE, document_id |-> c.document_id,
                   chunk_index |-> c.chunk_index]
            /\ {x.chunk_index : x \in {y \in dbChunks : y.document_id = c.document_id}}
                  = 0..(Cardinality({y \in dbChunks : y.document_id = c.document_id}) - 1)
            /\ \A x \in dbChunks : x.embedding_id = c.embedding_id => x = c)
    /\ [][dbChunks' # dbChunks =>
             \A c \in dbChunks' \ dbChunks : c.embedding_id \notin everIds]_vars

\* a document was deleted and a later one is stored with two chunks
C17_Witness ==
    /\ \E id \in everIds : \A c \in dbChunks : c.embedding_id # id
    /\ \E c \in dbChunks : c.chunk_index = 1

\* C18: the top_k decision table: an explicit top_k, whatever its value, is
\* returned as it is; without one the result is 3 for a question with a
\* factual keyword, else 7 with an explanatory one, else 8 with a
\* procedural one, else 5.
C18_TopKTable ==
    (qa.fn = "_determine_top_k" /\ qa.done) =>
        qa.top_k =
            IF qa.user_top_k # <<>> THEN qa.user_top_k[1]
            ELSE IF \E w \in {"what", "who", "when", "where"} : w \in qa.question.words
            THEN 3
            ELSE IF \E w \in {"how", "why", "explain", "describe"} : w \in qa.question.words
            THEN 7
            ELSE IF \E w \in {"steps", "procedure", "process", "guide"} :
                       w \in qa.question.words
            THEN 8
            ELSE 5

\* C20: threshold filter with fallback: of a non-empty search result list,
\* the chunks passed on to resolution are the results with a score strictly
\* above the threshold, in search order; when no result is above it they
\* are the first two results of the list (the only one when there is one);
\* they are never the empty list.
C20_FilterFallback ==
    (qa.fn = "_filter_by_similarity" /\ qa.done) =>
        LET s == qa.similar_chunks
            above == {i \in 1..Len(s) : s[i].score > 10}
        IN  /\ qa.filtered # <<>>
            /\ above = {} =>
                  /\ Len(qa.filtered) = (IF Len(s) = 1 THEN 1 ELSE 2)
                  /\ \A i \in 1..Len(qa.filtered) : qa.filtered[i] = s[i]
            /\ above # {} =>
                  /\ Len(qa.filtered) = Cardinality(above)
                  /\ \E f \in [1..Len(qa.filtered) -> above] :
                        /\ \A i, j \in 1..Len(qa.filtered) : i < j => f[i] < f[j]
                        /\ \A i \in 1..Len(qa.filtered) : qa.filtered[i] = s[f[i]]

\* the fallback was taken on a list of three results, none above the
\* threshold and the first exactly on it
C20_Witness ==
    /\ qa.fn = "_filter_by_similarity"
    /\ qa.done
    /\ Len(qa.similar_chunks) = 3
    /\ qa.similar_chunks[1].score = 10
    /\ Len(qa.filtered) = 2

\* C19: the empty-retrieval short-circuit: when search_similar returns the
\* empty list (as it does on an empty index), answer_question returns the
\* fixed answer "I couldn't find any relevant information to answer your
\* question." with no sources and the question it was asked, and
\* LLMService.generate_answer is not called for that request.
C19_EmptyShortCircuit ==
    [][resp'.kind = "ask" =>
          \A r \in Req, question \in Questions, user_top_k \in UserTopKs :
              LET s == LoadOrCreateIndex(diskIndex, diskIds)
                  similar_chunks == SearchSimilar(s.index, s.chunk_ids, question.text,
                                                  DetermineTopK(question, user_top_k))
              IN  (/\ AskBegin(r, question, user_top_k)
                   /\ ~s.err
                   /\ ~similar_chunks.err
                   /\ similar_chunks.res = <<>>)
                      => /\ resp'.status = 200
                         /\ resp'.answer = NoInformation
                         /\ resp'.sources = <<>>
                         /\ resp'.question = question
                         /\ ~resp'.llm]_vars

\* a question with keywords was answered from an index that holds nothing
\* while a document is stored
C19_Witness ==
    /\ resp.kind = "ask"
    /\ resp.status = 200
    /\ resp.question.words # {}
    /\ diskIds.data = <<>>
    /\ documents # {}

\* the chunk row an id names: the row of the document and chunk index the
\* id spells as "<int>_<int>", of a stored document
RowsOf(id) ==
    {c \in dbChunks :
        /\ c.embedding_id = id
        /\ \E d \in documents : d.id = c.document_id}

\* C21: resolution and source order: the sources answer_question returns
\* are, in the order of the search results, exactly the results whose id
\* spells "<int>_<int>" and has a chunk row, each with the content, the
\* document and the score of that result; an id that does not parse is
\* skipped; the context lists the same chunks in the same order, each with
\* its document name.
C21_SourceOrder ==
    (qa.fn = "_get_source_chunks" /\ qa.done) =>
        LET s == qa.similar_chunks
            kept == {i \in 1..Len(s) : RowsOf(s[i].id) # {}}
        IN  /\ Len(qa.sources) = Cardinality(kept)
            /\ \E f \in [1..Len(qa.sources) -> kept] :
                  /\ \A i, j \in 1..Len(qa.sources) : i < j => f[i] < f[j]
                  /\ \A i \in 1..Len(qa.sources) :
                        \E c \in RowsOf(s[f[i]].id) :
                            /\ qa.sources[i].content = c.content
                            /\ qa.sources[i].document_name = c.document_id
                            /\ qa.sources[i].chunk_index = c.chunk_index
                            /\ qa.sources[i].similarity_score = s[f[i]].score
            /\ Len(qa.context) = Len(qa.sources)
            /\ \A i \in 1..Len(qa.sources) :
                  /\ qa.context[i].label = i
                  /\ qa.context[i].content = qa.sources[i].content
                  /\ qa.context[i].document_name = qa.sources[i].document_name

\* an id that does not parse came first and the two results after it were
\* resolved
C21_Witness ==
    /\ qa.fn = "_get_source_chunks"
    /\ qa.done
    /\ Len(qa.similar_chunks) = 3
    /\ ~ParseChunkId(qa.similar_chunks[1].id).ok
    /\ Len(qa.sources) = 2
    /\ qa.sources[1].document_name # qa.sources[2].document_name

\* C22: answer generation never fails for its caller: whatever provider is
\* configured and whatever the provider does, generate_answer returns a
\* string and raises nothing; when the call of the provider raised, the
\* answer returned is the stubbed answer for the same question and context.
C22_GenerationNeverFails ==
    (qa.fn = "generate_answer" /\ qa.done) =>
        /\ ~qa.ret.raised
        /\ qa.ret.text # <<>>
        /\ (is_llm_available(qa.settings) /\ qa.outcome.raised) =>
              qa.ret.text = GenerateStubbedAnswer(1, qa.context).text

\* the OpenAI call raised on a context with a usable line and the answer
\* built from that line was returned
C22_Witness ==
    /\ qa.fn = "generate_answer"
    /\ qa.done
    /\ is_openai_available(qa.settings)
    /\ qa.outcome.raised
    /\ Len(qa.ret.text) > 1
    /\ qa.ret.text[1] = BasedOn

\* C23: post-validation of the generated answer: an answer that is empty
\* or shorter than 10 characters once trimmed is replaced by the fixed
\* insufficient-information message; an answer that holds the
\* insufficient-information phrase is returned as it is, without
\* disclaimer; any other answer gets the fixed disclaimer appended exactly
\* when no generative provider is configured, and is returned as it is
\* otherwise.
C23_PostValidation ==
    (qa.fn = "_validate_answer" /\ qa.done) =>
        LET answer == qa.answer
            configured ==
                \/ qa.settings.LLM_PROVIDER = "openai" /\ qa.settings.OPENAI_API_KEY
                \/ qa.settings.LLM_PROVIDER = "cohere" /\ qa.settings.COHERE_API_KEY
        IN  /\ ~qa.ret.raised
            /\ (StrLen(StripStr(answer)) < 10) => qa.ret.text = <<Insufficient>>
            /\ (StrLen(StripStr(answer)) >= 10 /\ HasPhrase(answer))
                  => qa.ret.text = answer
            /\ (StrLen(StripStr(answer)) >= 10 /\ ~HasPhrase(answer) /\ ~configured)
                  => qa.ret.text = answer \o <<Disclaimer>>
            /\ (StrLen(StripStr(answer)) >= 10 /\ ~HasPhrase(answer) /\ configured)
                  => qa.ret.text = answer

\* an answer with the phrase in capitals came back as it was although no
\* provider is configured
C23_Witness ==
    /\ qa.fn = "_validate_answer"
    /\ qa.done
    /\ qa.settings.LLM_PROVIDER = "stubbed"
    /\ \E i \in 1..Len(qa.answer) : qa.answer[i] = "Don't Have Enough Information"
    /\ qa.ret.text = qa.answer

\* C24: after the rebuild of the index (the rebuild-faiss-index endpoint),
\* with no other request under way, the persisted index holds exactly one
\* entry for every chunk row, under the embedding_id of the row: no chunk
\* that is stored is missing from the index.
C24_RebuildComplete ==
    (/\ resp.kind = "rebuild"
     /\ resp.status = 200
     /\ \A r \in Req : req[r].pc = "idle")
        => /\ \A c \in dbChunks :
                 Cardinality({i \in 1..Len(diskIds.data) :
                                 diskIds.data[i] = c.embedding_id}) = 1
           /\ \A i \in 1..Len(diskIds.data) :
                 \E c \in dbChunks : c.embedding_id = diskIds.data[i]

\* C25: split_text returns the empty list for every text that is empty or
\* holds only whitespace.
C25_BlankGivesNoChunk ==
    (chunker.done /\ \A i \in 1..Len(chunker.text) : chunker.text[i] \in Whitespace)
        => chunker.chunks = <<>>

\* split_text has returned for a text of several blanks
C25_Witness ==
    /\ chunker.done
    /\ Len(chunker.text) >= 2
    /\ \A i \in 1..Len(chunker.text) : chunker.text[i] = " "
    /\ chunker.chunks = <<>>

\* s is the beginning of t, up to the end of t or to a blank
BeginsWith(t, s) ==
    /\ Len(s) <= Len(t)
    /\ SubSeq(t, 1, Len(s)) = s
    /\ Len(t) > Len(s) => t[Len(s) + 1] = " "

RECURSIVE WholeSentences(_, _)
\* t is made of sentences of S, one blank between two of them
WholeSentences(t, S) ==
    \E s \in S :
        /\ BeginsWith(t, s)
        /\ Len(t) > Len(s) => WholeSentences(SubSeq(t, Len(s) + 2, Len(t)), S)

\* C26: chunk size bound with sentence atomicity: every chunk split_text
\* returns is a sequence of whole sentences of the normalized input and is
\* at most chunk_size long, unless it is one single sentence; no sentence
\* is cut.
C26_SizeBoundWholeSentences ==
    chunker.done =>
        LET S == Range(SplitIntoSentences(CleanText(chunker.text)))
        IN  \A j \in 1..Len(chunker.chunks) :
                /\ WholeSentences(chunker.chunks[j].text, S)
                /\ \/ Len(chunker.chunks[j].text) <= chunker.chunk_size
                   \/ chunker.chunks[j].text \in S

\* C27: overlap seeding: the buffer that follows an overflow is seeded with
\* a complete sentence of the normalized input (the last one in the tail
\* of the chunk just emitted) or, failing that, starts with the current
\* sentence: no chunk begins with a piece cut out of a sentence.
C27_SeedIsWholeSentence ==
    chunker.done =>
        LET S == Range(SplitIntoSentences(CleanText(chunker.text)))
        IN  \A j \in 1..Len(chunker.chunks) :
                \E s \in S : BeginsWith(chunker.chunks[j].text, s)

\* C28: a request that reaches answer_question with no top_k in its body is
\* searched with the classified breadth: 3 with a factual keyword, else 7
\* with an explanatory one, else 8 with a procedural one, else 5.
C28_HeuristicApplied ==
    (qa.fn = "ask_question" /\ qa.done /\ "top_k" \notin DOMAIN qa.body) =>
        qa.top_k =
            IF qa.body.question.words \cap {"what", "who", "when", "where"} # {} THEN 3
            ELSE IF qa.body.question.words \cap {"how", "why", "explain", "describe"} # {}
            THEN 7
            ELSE IF qa.body.question.words \cap {"steps", "procedure", "process", "guide"} # {}
            THEN 8
            ELSE 5
\* no request is under way and no worker thread runs
Quiescent == \A r \in Req : req[r] = IdleReq

\* the ids of the persisted id list
PersistedIds == IF diskIds.st = "ok" THEN Range(diskIds.data) ELSE {}

\* C29: no lost update between service instances: when uploads and
\* deletions, every one of them without an error, have run in any
\* interleaving and all have ended, the persisted id list holds the
\* embedding id of every chunk row of a document whose upload returned 200
\* and that is not deleted, and no id of a deleted document.
C29_NoLostUpdate ==
    Quiescent =>
        /\ \A d \in documents :
              d.id \in okDocs =>
                  \A c \in dbChunks :
                      c.document_id = d.id => c.embedding_id \in PersistedIds
        /\ \A id \in PersistedIds :
              \E d \in documents : d.id = ParseChunkId(id).document_id
\* C30: storage and index agree: whenever no request is under way, after
\* any sequence of uploads and deletions that have ended, with success or
\* with an error, the ids of the persisted id list are the embedding_id
\* values of the stored chunk rows, no more and no fewer.
C30_StorageIndexConsistent ==
    Quiescent => PersistedIds = {c.embedding_id : c \in dbChunks}
====
